---- MODULE Spec2Model ----
(***************************************************************************)
(* Model of the ingestion-and-modeling pipeline:                           *)
(*   modules/data_processing.py  load_and_merge_data                       *)
(*   modules/modeling.py         train_predictive_model                    *)
(*   modules/main.py             main                                      *)
(*                                                                         *)
(* A cell of a table is a record [ty, s]: ty is the Python type of the     *)
(* value ("int", "float", "str") and s is the text str() gives for it.     *)
(* A DataFrame is [cols, rows]: cols the set of column names, rows a       *)
(* sequence of functions from cols to cells.                               *)
(***************************************************************************)
EXTENDS Integers, Sequences, FiniteSets, TLC

\* ---------------------------------------------------------------- bounds
MaxRows == 2

\* ------------------------------------------------------------ cell values
NaN == [ty |-> "float", s |-> "nan"]

IsNa(c) == c = NaN

\* Series.astype(str): every value becomes the str whose text is str(value).
AsStr(c) == [ty |-> "str", s |-> c.s]

Range(f) == {f[i] : i \in DOMAIN f}

EmptyDataFrame == [cols |-> {}, rows |-> <<>>]

\* ------------------------------------------------- load_and_merge_data
merge_columns_main == <<"srcip", "sport", "dstip", "dsport", "proto">>

merge_columns_gt ==
  <<"Source IP", "Source Port", "Destination IP", "Destination Port", "Protocol">>

\* Inputs: what the three files hold.
PortTexts == {"1", "2"}

\* How read_csv types a port column: int64 when every cell is an integer, float64
\* when the column is numeric with an empty cell somewhere, str (object) when
\* some cell is not a number.
PortDtypes == {"int", "float", "str"}

\* str() of the port as read under each dtype: str(80) is "80", str(80.0) is "80.0".
PortCell(dtype, t) ==
  [ty |-> dtype,
   s  |-> IF dtype = "float" THEN (CASE t = "1" -> "1.0" [] t = "2" -> "2.0") ELSE t]

FlowValues == {[ty |-> "float", s |-> "10.0"], NaN}

Labels == {"benign", "attack"}

FlowFileRows == [sport : PortTexts, v : FlowValues]

GtFileRows == [port : PortTexts, label : Labels]

SeqsUpTo(S, n) == UNION {[1..k -> S] : k \in 0..n}

AllFlowNames == <<"srcip", "sport", "dstip", "dsport", "proto", "v">>

Without(names, c) == SelectSeq(names, LAMBDA x : x # c)

\* Name lists a descriptor may give: complete, or lacking one key column.
DescriptorNames == {AllFlowNames, Without(AllFlowNames, "dstip")}

AllGtCols == Range(merge_columns_gt) \cup {"label"}

GtHeaders == {AllGtCols, AllGtCols \ {"Destination Port"}}

FeaturesFiles ==
  {[status |-> "missing", hasName |-> FALSE, names |-> <<>>],
   [status |-> "unreadable", hasName |-> FALSE, names |-> <<>>],
   [status |-> "ok", hasName |-> FALSE, names |-> <<>>]}
  \cup {[status |-> "ok", hasName |-> TRUE, names |-> n] : n \in DescriptorNames}

MainFiles ==
  {[status |-> st, dtype |-> "str", rows |-> <<>>] : st \in {"missing", "unreadable"}}
  \cup {[status |-> "ok", dtype |-> d, rows |-> r] :
          d \in PortDtypes, r \in SeqsUpTo(FlowFileRows, MaxRows)}

GtFiles ==
  {[status |-> st, dtype |-> "str", cols |-> {}, rows |-> <<>>] :
          st \in {"missing", "unreadable"}}
  \cup {[status |-> "ok", dtype |-> d, cols |-> h, rows |-> r] :
          d \in PortDtypes, h \in GtHeaders, r \in SeqsUpTo(GtFileRows, MaxRows)}

VARIABLES
  lpc,            \* position in load_and_merge_data
  featuresFile,   \* the schema descriptor file
  mainFile,       \* the raw flow file
  gtFile,         \* the ground-truth file
  unsw_columns,   \* names taken from the descriptor
  df_main,        \* the flow table
  df_gt,          \* the ground-truth table
  df_merged,      \* the merged table (cleaned in place)
  lresult,        \* what load_and_merge_data returned or raised
  llog,           \* logging.error messages
  executed        \* the steps run so far

lvars == <<lpc, featuresFile, mainFile, gtFile, unsw_columns, df_main, df_gt,
           df_merged, lresult, llog, executed>>

\* pd.read_csv(main_filepath, header=None, names=unsw_columns)
MainCell(r, dtype, c) ==
  CASE c = "srcip"  -> [ty |-> "str", s |-> "10.0.0.1"]
    [] c = "sport"  -> PortCell(dtype, r.sport)
    [] c = "dstip"  -> [ty |-> "str", s |-> "10.0.0.2"]
    [] c = "dsport" -> [ty |-> "int", s |-> "53"]
    [] c = "proto"  -> [ty |-> "str", s |-> "udp"]
    [] OTHER        -> r.v

ReadCsvMain(file, names) ==
  [cols |-> Range(names),
   rows |-> [i \in 1..Len(file.rows) |->
               [c \in Range(names) |-> MainCell(file.rows[i], file.dtype, c)]]]

\* pd.read_csv(gt_filepath)
GtCell(r, dtype, c) ==
  CASE c = "Source IP"        -> [ty |-> "str", s |-> "10.0.0.1"]
    [] c = "Source Port"      -> PortCell(dtype, r.port)
    [] c = "Destination IP"   -> [ty |-> "str", s |-> "10.0.0.2"]
    [] c = "Destination Port" -> [ty |-> "int", s |-> "53"]
    [] c = "Protocol"         -> [ty |-> "str", s |-> "udp"]
    [] OTHER                  -> [ty |-> "str", s |-> r.label]

ReadCsvGt(file) ==
  [cols |-> file.cols,
   rows |-> [i \in 1..Len(file.rows) |->
               [c \in file.cols |-> GtCell(file.rows[i], file.dtype, c)]]]

\* The number of leading key columns the loop writes before df[col] raises.
RECURSIVE WritableKeys(_, _, _)
WritableKeys(df, keys, k) ==
  IF k > Len(keys) \/ keys[k] \notin df.cols THEN k - 1
  ELSE WritableKeys(df, keys, k + 1)

\* Mutant of NormalizeKeys: the whole frame is converted, not the key columns.
NormalizeKeys_AllColumns(df, keys, n) ==
  [cols |-> df.cols,
   rows |-> [i \in 1..Len(df.rows) |-> [c \in df.cols |-> AsStr(df.rows[i][c])]]]

\* Mutant of NormalizeKeys: the frame is replaced by its converted key columns
\* (df = df[keys].astype(str)).
NormalizeKeys_KeyFrameOnly(df, keys, n) ==
  [cols |-> {keys[k] : k \in 1..n},
   rows |-> [i \in 1..Len(df.rows) |->
               [c \in {keys[k] : k \in 1..n} |-> AsStr(df.rows[i][c])]]]

\* for col in keys[1..n]: df[col] = df[col].astype(str)
NormalizeKeys(df, keys, n) ==
  [cols |-> df.cols,
   rows |-> [i \in 1..Len(df.rows) |->
               [c \in df.cols |->
                  IF \E k \in 1..n : keys[k] = c THEN AsStr(df.rows[i][c])
                  ELSE df.rows[i][c]]]]

\* Mutant of KeysEqual: the join compares the first key column only.
KeysEqual_FirstOnly(l, r) == l[merge_columns_main[1]] = r[merge_columns_gt[1]]

\* pd.merge(df_main, df_gt, left_on=..., right_on=..., how='inner')
KeysEqual(l, r) ==
  \A k \in 1..Len(merge_columns_main) :
     l[merge_columns_main[k]] = r[merge_columns_gt[k]]

MatchesFor(l, rrows) ==
  LET m == SelectSeq(rrows, LAMBDA r : KeysEqual(l, r))
  IN  [j \in 1..Len(m) |-> l @@ m[j]]

RECURSIVE MergeRows(_, _, _)
MergeRows(lrows, rrows, i) ==
  IF i > Len(lrows) THEN <<>>
  ELSE MatchesFor(lrows[i], rrows) \o MergeRows(lrows, rrows, i + 1)

PdMerge(L, R) ==
  [cols |-> L.cols \cup R.cols, rows |-> MergeRows(L.rows, R.rows, 1)]

\* DataFrame.drop_duplicates(): keep the first occurrence of every row.
RECURSIVE DedupRows(_, _)
DedupRows(rows, n) ==
  IF n = 0 THEN <<>>
  ELSE LET prev == DedupRows(rows, n - 1)
       IN  IF \E j \in 1..(n - 1) : rows[j] = rows[n] THEN prev
           ELSE Append(prev, rows[n])

DropDuplicates(df) == [cols |-> df.cols, rows |-> DedupRows(df.rows, Len(df.rows))]

\* DataFrame.fillna(method='ffill'): a missing cell takes the cell above it,
\* as already filled.
RECURSIVE FfillRows(_, _)
FfillRows(rows, n) ==
  IF n = 0 THEN <<>>
  ELSE LET prev == FfillRows(rows, n - 1)
       IN  Append(prev,
                  [c \in DOMAIN rows[n] |->
                     IF IsNa(rows[n][c]) /\ n > 1 THEN prev[n - 1][c]
                     ELSE rows[n][c]])

\* Mutant of Ffill: a missing cell takes the unfilled cell above it (a shift).
Ffill_Shift(df) ==
  [cols |-> df.cols,
   rows |-> [i \in 1..Len(df.rows) |->
               [c \in df.cols |->
                  IF IsNa(df.rows[i][c]) /\ i > 1 THEN df.rows[i - 1][c]
                  ELSE df.rows[i][c]]]]

\* Mutant of Ffill: what is still missing after the forward fill is filled
\* backward from the next value below (ffill().bfill()).
RECURSIVE BfillRows(_, _)
BfillRows(rows, n) ==
  IF n > Len(rows) THEN <<>>
  ELSE LET rest == BfillRows(rows, n + 1)
       IN  <<[c \in DOMAIN rows[n] |->
                IF IsNa(rows[n][c]) /\ n < Len(rows) THEN rest[1][c]
                ELSE rows[n][c]]>> \o rest

Ffill_ThenBfill(df) ==
  [cols |-> df.cols, rows |-> BfillRows(FfillRows(df.rows, Len(df.rows)), 1)]

Ffill(df) == [cols |-> df.cols, rows |-> FfillRows(df.rows, Len(df.rows))]

\* The cleaning stage: lines 77-78 in order.
Clean(df) == Ffill(DropDuplicates(df))

Pending == [kind |-> "pending", table |-> EmptyDataFrame, exc |-> "", col |-> ""]

Returned(t) == [kind |-> "returned", table |-> t, exc |-> "", col |-> ""]

Raised(e, c) == [kind |-> "raised", table |-> EmptyDataFrame, exc |-> e, col |-> c]

\* ---------------------------------------- train_predictive_model and main
Classes == {0, 1}

MaxTrainRows == 6

MaxTestRows == 1

required_columns == <<"feature1", "feature2", "feature3", "label">>

\* test_size=0.2, as a percentage
TestSizePercent == 20

\* cv=5
n_splits == 5

\* def train_predictive_model(df): the parameters a call may bind
TrainParameters == {"df"}

\* train_predictive_model(df_train, test_data=df_test): the keywords main passes
MainCallKeywords == {"test_data"}

VARIABLES
  entry,      \* "main": main() runs; "direct": train_predictive_model(df) is called
  csvOk,      \* whether main's two read_csv calls succeed
  mpc,        \* position in main
  mresult,    \* how main ended
  df,         \* the table given for training: its columns and its label column
  df_test,    \* the hold-out table main loads
  tpc,        \* position in train_predictive_model
  split,      \* the row indices train_test_split put in each part
  model,      \* the classifier `model`
  y_pred,     \* model.predict(X_test), by row index
  acc,        \* accuracy_score, as correct/total
  cm,         \* confusion_matrix, by <<true, predicted>>
  cvFits,     \* the rows each per-fold clone was fit on
  tresult,    \* what train_predictive_model returned or raised
  tlog        \* what was logged

tvars == <<entry, csvOk, mpc, mresult, df, df_test, tpc, split, model, y_pred,
           acc, cm, cvFits, tresult, tlog>>

vars == <<lvars, tvars>>

NoModel == [fitted |-> FALSE, fitOn |-> {}, classes |-> {}]

NoSplit == [train |-> {}, test |-> {}]

NoAcc == [correct |-> -1, total |-> -1]

NoCm == [p \in Classes \X Classes |-> 0]

TPending == [kind |-> "pending", none |-> FALSE, model |-> NoModel, exc |-> ""]

TReturned(m) == [kind |-> "returned", none |-> FALSE, model |-> m, exc |-> ""]

TReturnedNone == [kind |-> "returned", none |-> TRUE, model |-> NoModel, exc |-> ""]

TRaised(e) == [kind |-> "raised", none |-> FALSE, model |-> NoModel, exc |-> e]

TrainFrames ==
  {[cols |-> c, y |-> y] :
     c \in SUBSET Range(required_columns), y \in SeqsUpTo(Classes, MaxTrainRows)}

TestFrames ==
  {[cols |-> Range(required_columns), y |-> y] : y \in SeqsUpTo(Classes, MaxTestRows)}

\* The training part at rest, while load_and_merge_data runs.
TrainIdle ==
  /\ entry = "none"
  /\ csvOk = FALSE
  /\ mpc = "idle"
  /\ mresult = "pending"
  /\ df = [cols |-> {}, y |-> <<>>]
  /\ df_test = [cols |-> {}, y |-> <<>>]
  /\ tpc = "idle"
  /\ split = NoSplit
  /\ model = NoModel
  /\ y_pred = <<>>
  /\ acc = NoAcc
  /\ cm = NoCm
  /\ cvFits = <<>>
  /\ tresult = TPending
  /\ tlog = <<>>

\* load_and_merge_data at rest, while the training part runs.
LinkageIdle ==
  /\ lpc = "idle"
  /\ featuresFile = [status |-> "missing", hasName |-> FALSE, names |-> <<>>]
  /\ mainFile = [status |-> "missing", dtype |-> "str", rows |-> <<>>]
  /\ gtFile = [status |-> "missing", dtype |-> "str", cols |-> {}, rows |-> <<>>]
  /\ unsw_columns = <<>>
  /\ df_main = EmptyDataFrame
  /\ df_gt = EmptyDataFrame
  /\ df_merged = EmptyDataFrame
  /\ lresult = Pending
  /\ llog = <<>>
  /\ executed = {}

InitLinkage ==
  /\ TrainIdle
  /\ lpc = "check_exists"
  /\ featuresFile \in FeaturesFiles
  /\ mainFile \in MainFiles
  /\ gtFile \in GtFiles
  /\ unsw_columns = <<>>
  /\ df_main = EmptyDataFrame
  /\ df_gt = EmptyDataFrame
  /\ df_merged = EmptyDataFrame
  /\ lresult = Pending
  /\ llog = <<>>
  /\ executed = {}

\* return pd.DataFrame() after logging.error(msg)
AbortEmpty(step, msg) ==
  /\ lpc' = "done"
  /\ lresult' = Returned(EmptyDataFrame)
  /\ llog' = Append(llog, msg)
  /\ executed' = executed \cup {step}

Advance(step, next) ==
  /\ lpc' = next
  /\ executed' = executed \cup {step}
  /\ UNCHANGED <<lresult, llog>>

\* lines 20-24: the existence check over the three paths, in order
CheckExists ==
  /\ lpc = "check_exists"
  /\ IF mainFile.status = "missing"
       THEN AbortEmpty("check_exists", "Main data file not found")
     ELSE IF gtFile.status = "missing"
       THEN AbortEmpty("check_exists", "Ground truth file not found")
     ELSE IF featuresFile.status = "missing"
       THEN AbortEmpty("check_exists", "Features file not found")
     ELSE Advance("check_exists", "read_features")
  /\ UNCHANGED <<featuresFile, mainFile, gtFile, unsw_columns, df_main, df_gt,
                 df_merged, tvars>>

\* lines 27-31
ReadFeatures ==
  /\ lpc = "read_features"
  /\ IF featuresFile.status = "unreadable"
       THEN AbortEmpty("read_features", "Error reading features file")
     ELSE Advance("read_features", "check_name")
  /\ UNCHANGED <<featuresFile, mainFile, gtFile, unsw_columns, df_main, df_gt,
                 df_merged, tvars>>

\* lines 34-37
CheckName ==
  /\ lpc = "check_name"
  /\ IF ~featuresFile.hasName
       THEN /\ AbortEmpty("check_name", "Features file does not contain 'Name' column")
            /\ UNCHANGED unsw_columns
     ELSE /\ Advance("check_name", "read_main")
          /\ unsw_columns' = featuresFile.names
  /\ UNCHANGED <<featuresFile, mainFile, gtFile, df_main, df_gt, df_merged, tvars>>

\* lines 42-46
ReadMain ==
  /\ lpc = "read_main"
  /\ IF mainFile.status = "unreadable"
       THEN /\ AbortEmpty("read_main", "Error reading main dataset")
            /\ UNCHANGED df_main
     ELSE /\ Advance("read_main", "read_gt")
          /\ df_main' = ReadCsvMain(mainFile, unsw_columns)
  /\ UNCHANGED <<featuresFile, mainFile, gtFile, unsw_columns, df_gt, df_merged, tvars>>

\* Mutant of ReadGt: the read error is logged and the run goes on.
ReadGt_Swallow ==
  /\ lpc = "read_gt"
  /\ lpc' = "normalize_main"
  /\ executed' = executed \cup {"read_gt"}
  /\ llog' = IF gtFile.status = "unreadable"
               THEN Append(llog, "Error reading ground truth data") ELSE llog
  /\ df_gt' = IF gtFile.status = "unreadable" THEN df_gt ELSE ReadCsvGt(gtFile)
  /\ UNCHANGED <<featuresFile, mainFile, gtFile, unsw_columns, df_main, df_merged,
                 lresult, tvars>>

\* lines 50-54
ReadGt ==
  /\ lpc = "read_gt"
  /\ IF gtFile.status = "unreadable"
       THEN /\ AbortEmpty("read_gt", "Error reading ground truth data")
            /\ UNCHANGED df_gt
     ELSE /\ Advance("read_gt", "normalize_main")
          /\ df_gt' = ReadCsvGt(gtFile)
  /\ UNCHANGED <<featuresFile, mainFile, gtFile, unsw_columns, df_main, df_merged, tvars>>

\* lines 66-67: the loop writes each key column in turn; df_main[col] raises
\* KeyError at the first absent one, which nothing catches.
NormalizeMain ==
  /\ lpc = "normalize_main"
  /\ LET n == WritableKeys(df_main, merge_columns_main, 1)
     IN  /\ df_main' = NormalizeKeys(df_main, merge_columns_main, n)
         /\ executed' = executed \cup {"normalize_main"}
         /\ IF n < Len(merge_columns_main)
              THEN /\ lpc' = "done"
                   /\ lresult' = Raised("KeyError", merge_columns_main[n + 1])
              ELSE /\ lpc' = "normalize_gt"
                   /\ UNCHANGED lresult
  /\ UNCHANGED <<featuresFile, mainFile, gtFile, unsw_columns, df_gt, df_merged, llog, tvars>>

\* lines 68-69
NormalizeGt ==
  /\ lpc = "normalize_gt"
  /\ LET n == WritableKeys(df_gt, merge_columns_gt, 1)
     IN  /\ df_gt' = NormalizeKeys(df_gt, merge_columns_gt, n)
         /\ executed' = executed \cup {"normalize_gt"}
         /\ IF n < Len(merge_columns_gt)
              THEN /\ lpc' = "done"
                   /\ lresult' = Raised("KeyError", merge_columns_gt[n + 1])
              ELSE /\ lpc' = "merge"
                   /\ UNCHANGED lresult
  /\ UNCHANGED <<featuresFile, mainFile, gtFile, unsw_columns, df_main, df_merged, llog, tvars>>

\* line 73
Merge ==
  /\ lpc = "merge"
  /\ df_merged' = PdMerge(df_main, df_gt)
  /\ Advance("merge", "drop_duplicates")
  /\ UNCHANGED <<featuresFile, mainFile, gtFile, unsw_columns, df_main, df_gt, tvars>>

\* line 77
DropDuplicatesStep ==
  /\ lpc = "drop_duplicates"
  /\ df_merged' = DropDuplicates(df_merged)
  /\ Advance("drop_duplicates", "fillna")
  /\ UNCHANGED <<featuresFile, mainFile, gtFile, unsw_columns, df_main, df_gt, tvars>>

\* line 78
FillnaStep ==
  /\ lpc = "fillna"
  /\ df_merged' = Ffill(df_merged)
  /\ Advance("fillna", "return")
  /\ UNCHANGED <<featuresFile, mainFile, gtFile, unsw_columns, df_main, df_gt, tvars>>

\* line 81
ReturnMerged ==
  /\ lpc = "return"
  /\ lpc' = "done"
  /\ lresult' = Returned(df_merged)
  /\ executed' = executed \cup {"return"}
  /\ UNCHANGED <<featuresFile, mainFile, gtFile, unsw_columns, df_main, df_gt,
                 df_merged, llog, tvars>>

NextLinkage ==
  \/ CheckExists
  \/ ReadFeatures
  \/ CheckName
  \/ ReadMain
  \/ ReadGt
  \/ NormalizeMain
  \/ NormalizeGt
  \/ Merge
  \/ DropDuplicatesStep
  \/ FillnaStep
  \/ ReturnMerged

SpecLinkage == InitLinkage /\ [][NextLinkage]_vars
\* ------------------------------------------------ train_predictive_model
\* Mutant of FirstMissing: the loop goes on and the last missing column is kept.
RECURSIVE FirstMissing_Last(_, _)
FirstMissing_Last(cols, k) ==
  IF k > Len(required_columns) THEN 0
  ELSE LET later == FirstMissing_Last(cols, k + 1)
       IN  IF later # 0 THEN later
           ELSE IF required_columns[k] \notin cols THEN k ELSE 0

\* modeling.py lines 22-26: the position of the column the loop stops at, 0 when none is missing
RECURSIVE FirstMissing(_, _)
FirstMissing(cols, k) ==
  IF k > Len(required_columns) THEN 0
  ELSE IF required_columns[k] \notin cols THEN k
  ELSE FirstMissing(cols, k + 1)

RowsOf(t) == 1..Len(t.y)

LabelsOn(t, rows) == {t.y[i] : i \in rows}

\* train_test_split: n_test = ceil(test_size * n), exact for the row counts used here
NTest(n) == (n * TestSizePercent + 99) \div 100

\* RandomForestClassifier.fit(X_train, y_train)
FitOn(t, rows) == [fitted |-> TRUE, fitOn |-> rows, classes |-> LabelsOn(t, rows)]

\* StratifiedKFold(n_splits) without shuffle, as cross_val_score builds it for a
\* classifier.  Classes are numbered by first appearance; the rows sorted by
\* class are dealt to the folds in turn and each class's rows, in row order,
\* take the folds 0, 1, ... as often as the deal gave that class.
FirstRow(y, c) == CHOOSE i \in 1..Len(y) : y[i] = c /\ \A j \in 1..(i - 1) : y[j] # c

CountOf(y, c) == Cardinality({i \in 1..Len(y) : y[i] = c})

\* The position, from 0, where class c starts among the rows sorted by class.
OffsetOf(y, c) ==
  Cardinality({i \in 1..Len(y) : y[i] # c /\ FirstRow(y, y[i]) < FirstRow(y, c)})

Allocation(y, f, c) ==
  Cardinality({q \in OffsetOf(y, c)..(OffsetOf(y, c) + CountOf(y, c) - 1) :
                 q % n_splits = f})

RECURSIVE AllocatedBefore(_, _, _)
AllocatedBefore(y, f, c) ==
  IF f = 0 THEN 0 ELSE AllocatedBefore(y, f - 1, c) + Allocation(y, f - 1, c)

\* The fold, from 0, whose test part row i falls in.
FoldOf(y, i) ==
  LET c == y[i]
      rank == Cardinality({j \in 1..(i - 1) : y[j] = c})
  IN  CHOOSE f \in 0..(n_splits - 1) :
        AllocatedBefore(y, f, c) <= rank /\ rank < AllocatedBefore(y, f + 1, c)

FoldTest(y, f) == {i \in 1..Len(y) : FoldOf(y, i) = f}

\* StratifiedKFold refuses n_splits greater than the size of every class.
CvRefuses(y) == \A c \in Classes : CountOf(y, c) < n_splits

InitTrain ==
  /\ LinkageIdle
  /\ entry \in {"main", "direct"}
  /\ csvOk \in (IF entry = "main" THEN BOOLEAN ELSE {TRUE})
  /\ mpc = IF entry = "main" THEN "load" ELSE "idle"
  /\ mresult = "pending"
  /\ df \in TrainFrames
  /\ df_test \in (IF entry = "main" THEN TestFrames ELSE {[cols |-> {}, y |-> <<>>]})
  /\ tpc = IF entry = "direct" THEN "check_columns" ELSE "idle"
  /\ split = NoSplit
  /\ model = NoModel
  /\ y_pred = <<>>
  /\ acc = NoAcc
  /\ cm = NoCm
  /\ cvFits = <<>>
  /\ tresult = TPending
  /\ tlog = <<>>

LogEntry(m, c, a, b) == [msg |-> m, col |-> c, num |-> a, den |-> b]

\* main.py lines 16-21
MainLoad ==
  /\ mpc = "load"
  /\ IF csvOk
       THEN /\ mpc' = "call"
            /\ UNCHANGED <<mresult, tlog>>
       ELSE /\ mpc' = "done"
            /\ mresult' = "returned"
            /\ tlog' = Append(tlog, LogEntry("Error loading training or testing set", "", 0, 0))
  /\ UNCHANGED <<entry, csvOk, df, df_test, tpc, split, model, y_pred, acc, cm,
                 cvFits, tresult, lvars>>

\* main.py line 29: the call binds its keywords to the parameters of
\* train_predictive_model; a keyword that is no parameter raises TypeError,
\* which main does not catch (lines 30-38 run only after the call returns).
MainCallTrain ==
  /\ mpc = "call"
  /\ IF MainCallKeywords \subseteq TrainParameters
       THEN /\ mpc' = "in_call"
            /\ tpc' = "check_columns"
            /\ UNCHANGED mresult
       ELSE /\ mpc' = "done"
            /\ mresult' = "TypeError"
            /\ UNCHANGED tpc
  /\ UNCHANGED <<entry, csvOk, df, df_test, split, model, y_pred, acc, cm, cvFits,
                 tresult, tlog, lvars>>

\* modeling.py lines 22-26
CheckColumns ==
  /\ tpc = "check_columns"
  /\ LET k == FirstMissing(df.cols, 1)
     IN  IF k # 0
           THEN /\ tlog' = Append(tlog, LogEntry("Column is missing from dataset",
                                                 required_columns[k], 0, 0))
                /\ tresult' = TReturnedNone
                /\ tpc' = "done"
           ELSE /\ tpc' = "split"
                /\ UNCHANGED <<tlog, tresult>>
  /\ UNCHANGED <<entry, csvOk, mpc, mresult, df, df_test, split, model, y_pred, acc,
                 cm, cvFits, lvars>>

\* modeling.py lines 29-34: the shuffle is fixed by random_state=42; which rows
\* it sends to the test part is left open.  An empty train part raises ValueError.
Split ==
  /\ tpc = "split"
  /\ LET n == Len(df.y)
     IN  IF n - NTest(n) = 0
           THEN /\ tresult' = TRaised("ValueError")
                /\ tpc' = "done"
                /\ UNCHANGED split
           ELSE /\ \E test \in SUBSET RowsOf(df) :
                     /\ Cardinality(test) = NTest(n)
                     /\ split' = [train |-> RowsOf(df) \ test, test |-> test]
                /\ tpc' = "fit"
                /\ UNCHANGED tresult
  /\ UNCHANGED <<entry, csvOk, mpc, mresult, df, df_test, model, y_pred, acc, cm,
                 cvFits, tlog, lvars>>

\* modeling.py lines 37-39
Fit ==
  /\ tpc = "fit"
  /\ model' = FitOn(df, split.train)
  /\ tpc' = "predict"
  /\ UNCHANGED <<entry, csvOk, mpc, mresult, df, df_test, split, y_pred, acc, cm,
                 cvFits, tresult, tlog, lvars>>

\* modeling.py line 42: each test row gets one of the classes the model was fit on
Predict ==
  /\ tpc = "predict"
  /\ y_pred' \in [split.test -> model.classes]
  /\ tpc' = "evaluate"
  /\ UNCHANGED <<entry, csvOk, mpc, mresult, df, df_test, split, model, acc, cm,
                 cvFits, tresult, tlog, lvars>>

\* modeling.py lines 43-50
Evaluate ==
  /\ tpc = "evaluate"
  /\ LET correct == Cardinality({i \in split.test : y_pred[i] = df.y[i]})
     IN  /\ acc' = [correct |-> correct, total |-> Cardinality(split.test)]
         /\ tlog' = Append(tlog, LogEntry("Model Accuracy", "", correct,
                                           Cardinality(split.test)))
  /\ cm' = [p \in Classes \X Classes |->
              Cardinality({i \in split.test : df.y[i] = p[1] /\ y_pred[i] = p[2]})]
  /\ tpc' = "cross_val"
  /\ UNCHANGED <<entry, csvOk, mpc, mresult, df, df_test, split, model, y_pred,
                 cvFits, tresult, lvars>>

\* Mutant of CrossVal: the folds are fit with `model` itself, not with clones.
CrossVal_RefitsModel ==
  /\ tpc = "cross_val"
  /\ IF CvRefuses(df.y)
       THEN /\ tresult' = TRaised("ValueError")
            /\ tpc' = "done"
            /\ UNCHANGED <<cvFits, tlog, model>>
       ELSE /\ cvFits' = [f \in 1..n_splits |-> RowsOf(df) \ FoldTest(df.y, f - 1)]
            /\ model' = FitOn(df, RowsOf(df) \ FoldTest(df.y, n_splits - 1))
            /\ tlog' = Append(tlog, LogEntry("Cross-validation scores", "", 0, 0))
            /\ tpc' = "return"
            /\ UNCHANGED tresult
  /\ UNCHANGED <<entry, csvOk, mpc, mresult, df, df_test, split, y_pred, acc, cm,
                 lvars>>

\* modeling.py lines 53-55: cross_val_score(model, X, y, cv=5) fits a clone of
\* the estimator on each fold's train part; the per-fold scores are only logged.
CrossVal ==
  /\ tpc = "cross_val"
  /\ IF CvRefuses(df.y)
       THEN /\ tresult' = TRaised("ValueError")
            /\ tpc' = "done"
            /\ UNCHANGED <<cvFits, tlog>>
       ELSE /\ cvFits' = [f \in 1..n_splits |-> RowsOf(df) \ FoldTest(df.y, f - 1)]
            /\ tlog' = Append(tlog, LogEntry("Cross-validation scores", "", 0, 0))
            /\ tpc' = "return"
            /\ UNCHANGED tresult
  /\ UNCHANGED <<entry, csvOk, mpc, mresult, df, df_test, split, model, y_pred, acc,
                 cm, lvars>>

\* modeling.py line 57
ReturnModel ==
  /\ tpc = "return"
  /\ tresult' = TReturned(model)
  /\ tpc' = "done"
  /\ UNCHANGED <<entry, csvOk, mpc, mresult, df, df_test, split, model, y_pred, acc,
                 cm, cvFits, tlog, lvars>>

NextTrain ==
  \/ MainLoad
  \/ MainCallTrain
  \/ CheckColumns
  \/ Split
  \/ Fit
  \/ Predict
  \/ Evaluate
  \/ CrossVal
  \/ ReturnModel

SpecTrain == InitTrain /\ [][NextTrain]_vars

\* ------------------------------------------------------------ properties
NoDuplicateRows(t) ==
  \A i, j \in 1..Len(t.rows) : t.rows[i] = t.rows[j] => i = j

\* The tables as loaded, and the merged table as the join produced it.
LoadedMain == ReadCsvMain(mainFile, unsw_columns)

LoadedGt == ReadCsvGt(gtFile)

\* C1 as stated: cleaning its own output gives the same table,
\* clean(clean(T)) = clean(T), for every merged table T.
C1_CleanIdempotent ==
  lpc = "return" => Clean(df_merged) = df_merged

\* C1 amended: clean(clean(T)) = clean(T) for every merged table T in which the
\* forward fill makes no two rows identical; when it does, the second cleaning
\* only removes those duplicate rows: clean(clean(T)) = drop_duplicates(clean(T)).
C1_CleanIdempotentUnlessFillDuplicates ==
  lpc = "return" =>
    /\ Clean(df_merged) = DropDuplicates(df_merged)
    /\ NoDuplicateRows(df_merged) => Clean(df_merged) = df_merged

\* A cleaned table with no duplicate rows in which the forward fill changed a cell.
C1_Witness ==
  /\ lpc = "return"
  /\ NoDuplicateRows(df_merged)
  /\ Len(df_merged.rows) = Len(PdMerge(df_main, df_gt).rows)
  /\ df_merged # PdMerge(df_main, df_gt)

\* The canonical text of a row's key tuple.
KeyText(row, keys) == [k \in 1..Len(keys) |-> row[keys[k]].s]

MatchingPairs ==
  {p \in (1..Len(LoadedMain.rows)) \X (1..Len(LoadedGt.rows)) :
     KeyText(LoadedMain.rows[p[1]], merge_columns_main)
       = KeyText(LoadedGt.rows[p[2]], merge_columns_gt)}

\* C2: the inner join has as many rows as there are (flow row, ground-truth
\* row) pairs with equal normalized key tuples, and none when no pair matches.
C2_JoinRowCount ==
  lpc = "drop_duplicates" =>
    /\ Len(df_merged.rows) = Cardinality(MatchingPairs)
    /\ MatchingPairs = {} => df_merged.rows = <<>>

\* Duplicate keys on both sides, stored as a number on one side and as text on
\* the other: the join holds the cross product.
C2_Witness ==
  /\ lpc = "drop_duplicates"
  /\ mainFile.dtype # gtFile.dtype
  /\ Len(mainFile.rows) = 2
  /\ Len(gtFile.rows) = 2
  /\ Len(df_merged.rows) = 4

MissingKeyColumn ==
  \/ \E k \in 1..Len(merge_columns_main) : merge_columns_main[k] \notin df_main.cols
  \/ \E k \in 1..Len(merge_columns_gt) : merge_columns_gt[k] \notin df_gt.cols

\* C3: when a key column is absent from its table, record linkage ends with a
\* SchemaError naming it, before any key normalization write and without a join.
C3_SchemaErrorBeforeNormalization ==
  (lpc = "done" /\ "read_gt" \in executed /\ gtFile.status = "ok" /\ MissingKeyColumn) =>
    /\ lresult.kind = "raised"
    /\ lresult.exc = "SchemaError"
    /\ lresult.col \notin (df_main.cols \cup df_gt.cols)
    /\ df_main = LoadedMain
    /\ df_gt = LoadedGt
    /\ "merge" \notin executed

LoadSteps == <<"check_exists", "read_features", "check_name", "read_main", "read_gt">>

LoadFailure ==
  \/ mainFile.status # "ok"
  \/ gtFile.status # "ok"
  \/ featuresFile.status # "ok"
  \/ ~featuresFile.hasName

\* The position in LoadSteps of the load step that fails.
FailingStep ==
  IF "missing" \in {mainFile.status, gtFile.status, featuresFile.status} THEN 1
  ELSE IF featuresFile.status = "unreadable" THEN 2
  ELSE IF ~featuresFile.hasName THEN 3
  ELSE IF mainFile.status = "unreadable" THEN 4
  ELSE 5

\* C8: a missing or unreadable input file, or a descriptor that cannot be
\* parsed or lacks 'Name', aborts the run at that load step with an empty table:
\* no later load, normalization, join or cleaning step runs.
C8_LoadFailureAbortsEmpty ==
  LoadFailure =>
    /\ executed \subseteq {LoadSteps[k] : k \in 1..FailingStep}
    /\ df_merged = EmptyDataFrame
    /\ lpc = "done" =>
         /\ lresult = Returned(EmptyDataFrame)
         /\ executed = {LoadSteps[k] : k \in 1..FailingStep}
         /\ Len(llog) = 1

\* The flow table was loaded, then the ground-truth file could not be read.
C8_Witness ==
  /\ lpc = "done"
  /\ gtFile.status = "unreadable"
  /\ Len(df_main.rows) = 2
  /\ lresult = Returned(EmptyDataFrame)

\* What forward fill may do to a table D, giving F.
FfillKeeps(D, F) ==
  /\ F.cols = D.cols
  /\ Len(F.rows) = Len(D.rows)
  /\ \A i \in 1..Len(D.rows) : \A c \in D.cols :
       /\ ~IsNa(D.rows[i][c]) => F.rows[i][c] = D.rows[i][c]
       /\ (\A j \in 1..i : IsNa(D.rows[j][c])) => IsNa(F.rows[i][c])

\* C9: forward fill leaves every non-missing value as it was, leaves missing
\* what precedes a column's first non-missing value, and leaves a column with
\* no value entirely missing.
C9_FfillKeepsValuesAndLeadingGaps ==
  [][lpc = "fillna" => FfillKeeps(df_merged, df_merged')]_vars

\* After the fill: a column whose first cell is still missing and that holds a
\* value further down.
C9_Witness ==
  /\ lpc = "return"
  /\ Len(df_merged.rows) >= 2
  /\ IsNa(df_merged.rows[1]["v"])
  /\ \E i \in 2..Len(df_merged.rows) : ~IsNa(df_merged.rows[i]["v"])

\* The scenario's keys are the texts "1" and "2" (or the integers they spell).
ScenarioInput ==
  /\ mainFile.status = "ok"
  /\ gtFile.status = "ok"
  /\ mainFile.dtype \in {"int", "str"}
  /\ gtFile.dtype \in {"int", "str"}
  /\ mainFile.rows = <<[sport |-> "1", v |-> [ty |-> "float", s |-> "10.0"]],
                       [sport |-> "2", v |-> NaN]>>
  /\ gtFile.rows = <<[port |-> "1", label |-> "benign"],
                     [port |-> "2", label |-> "attack"]>>

MissingRequired == {c \in Range(required_columns) : c \notin df.cols}

\* The missing column that comes first in the configured order.
FirstMissingInOrder ==
  CHOOSE c \in MissingRequired :
    \E k \in 1..Len(required_columns) :
      /\ required_columns[k] = c
      /\ \A j \in 1..(k - 1) : required_columns[j] \in df.cols

TrainingUntouched ==
  /\ split = NoSplit
  /\ model = NoModel
  /\ y_pred = <<>>
  /\ acc = NoAcc
  /\ cm = NoCm
  /\ cvFits = <<>>

\* C4: with a required column missing, train_predictive_model reports the first
\* missing column in configured order, returns None and never reaches the
\* split, the fit, the evaluation or the cross-validation.
C4_MissingColumnReturnsNone ==
  (tpc # "idle" /\ MissingRequired # {}) =>
    /\ tpc \in {"check_columns", "done"}
    /\ TrainingUntouched
    /\ tpc = "done" =>
         /\ tresult = TReturnedNone
         /\ Len(tlog) = 1
         /\ tlog[1].msg = "Column is missing from dataset"
         /\ tlog[1].col = FirstMissingInOrder

\* Two columns are missing; the earlier one was reported.
C4_Witness ==
  /\ tpc = "done"
  /\ MissingRequired = {"feature2", "label"}
  /\ tresult = TReturnedNone
  /\ tlog[1].col = "feature2"

SingleClassLabels ==
  /\ MissingRequired = {}
  /\ Len(df.y) >= n_splits
  /\ Cardinality(LabelsOn(df, RowsOf(df))) = 1

\* C6: with fewer than two distinct classes in the label vector, fitting fails
\* with a ModelingError that reaches the caller: no model is returned and no
\* accuracy is reported.
C6_SingleClassRaisesModelingError ==
  (tpc # "idle" /\ SingleClassLabels) =>
    /\ acc = NoAcc
    /\ tresult.kind = "returned" => tresult.none
    /\ tpc = "done" => (tresult.kind = "raised" /\ tresult.exc = "ModelingError")

CmSum == cm[<<0, 0>>] + cm[<<0, 1>>] + cm[<<1, 0>>] + cm[<<1, 1>>]

\* C7: when main supplies the hold-out set (test_data=df_test), the engine
\* predicts on exactly that set and the confusion matrix counts sum to its
\* number of rows.
C7_HoldOutPredictedAndCounted ==
  (entry = "main" /\ csvOk /\ mpc = "done") =>
    /\ mresult # "TypeError"
    /\ DOMAIN y_pred = RowsOf(df_test)
    /\ CmSum = Len(df_test.y)
\* The (flow row, ground-truth row) pairs whose files hold the same port.
SameIdentifierPairs ==
  {p \in (1..Len(mainFile.rows)) \X (1..Len(gtFile.rows)) :
     mainFile.rows[p[1]].sport = gtFile.rows[p[2]].port}

\* One table stores the port as a number, the other as text.
NumericAndText == (mainFile.dtype = "str") # (gtFile.dtype = "str")

AllKeysAreStrings ==
  /\ \A i \in 1..Len(df_main.rows) : \A k \in 1..Len(merge_columns_main) :
       df_main.rows[i][merge_columns_main[k]].ty = "str"
  /\ \A j \in 1..Len(df_gt.rows) : \A k \in 1..Len(merge_columns_gt) :
       df_gt.rows[j][merge_columns_gt[k]].ty = "str"

\* C11: every key column of both tables is normalized the same way, and a
\* number and a text that stand for the same identifier normalize to the same
\* string and so match in the join.
C11_NumericAndTextKeysMatch ==
  (lpc = "drop_duplicates" /\ NumericAndText) =>
    /\ AllKeysAreStrings
    /\ \A p \in SameIdentifierPairs :
         df_main.rows[p[1]]["sport"] = df_gt.rows[p[2]]["Source Port"]
    /\ Len(df_merged.rows) = Cardinality(SameIdentifierPairs)
TablesLoaded == "read_gt" \in executed /\ gtFile.status = "ok"

OnlyKeysRewritten(t, o, keys, all) ==
  /\ t.cols = o.cols
  /\ Len(t.rows) = Len(o.rows)
  /\ \A i \in 1..Len(o.rows) : \A c \in o.cols :
       IF c \in Range(keys)
         THEN /\ t.rows[i][c].s = o.rows[i][c].s
              /\ t.rows[i][c].ty \in {"str", o.rows[i][c].ty}
              /\ all => t.rows[i][c].ty = "str"
         ELSE t.rows[i][c] = o.rows[i][c]

====
